---- MODULE Spec2Model ----
(***************************************************************************)
(* gitwip: list the non-primary Git branches of every repository in a      *)
(* directory tree.                                                         *)
(*                                                                         *)
(* Two programs of the repository are modelled:                            *)
(*   - the package  src/src/gitwip/main.py  (specification Spec), and      *)
(*   - the standalone script  src/main.py   (specification SpecScript).    *)
(*                                                                         *)
(* Text is a sequence of atoms.  An atom is a one-character string, or a   *)
(* longer string standing for a run of characters that holds no newline,   *)
(* blank, colon or slash boundary the program looks at.  Directory names   *)
(* are spelled one character per atom, so that they can be ordered.        *)
(***************************************************************************)
EXTENDS Integers, Sequences, FiniteSets, TLC

VARIABLES
    fs,               \* the directory tree: real directory -> its entries
    skip_hidden_dirs, \* cli: not args.include_hidden
    home,             \* Path.home().resolve()
    pc,               \* position of the program
    walk,             \* os.walk: directories still to visit
    git_repos,        \* get_git_repos: the list being built
    order,            \* sorted(repo_paths)
    idx,              \* position of the for loop in order (0: not started)
    listing,          \* outcome of the `git branch` invocation
    all_branches,     \* names parsed from the listing
    calls,            \* get_primary_branch: the git invocations made, in order
    ref,              \* _run_git(symbolic-ref): Some(text) or None
    remote_output,    \* _run_git(remote show origin)
    probed,           \* _run_git(show-ref --verify ...) of each probe made
    primary_branch,   \* get_primary_branch's return value
    branches,         \* the filtered list
    mark,             \* Len(out) when the current repository's turn began
    out               \* lines printed to stdout

vars == <<fs, skip_hidden_dirs, home, pc, walk, git_repos, order, idx, listing,
          all_branches, calls, ref, remote_output, probed, primary_branch,
          branches, mark, out>>

(***************************************************************************)
(* Bounds                                                                  *)
(***************************************************************************)
\* At most this many directories of the tree hold a .git directory.
MaxRepos == 2

(***************************************************************************)
(* Optional values (str | None) and process outcomes                       *)
(***************************************************************************)
None == [some |-> FALSE]
Some(v) == [some |-> TRUE, val |-> v]

\* Python truthiness of a str | None
Truthy(x) == x.some /\ x.val # <<>>

\* A finished subprocess: exit status and captured stdout.
Exit(code, text) == [rc |-> code, stdout |-> text]
Failed == Exit(1, <<>>)

(***************************************************************************)
(* str methods                                                             *)
(***************************************************************************)
NL == "\n"
SP == " "
IsSpace(c) == c \in {NL, SP}

RECURSIVE lstrip(_)
lstrip(s) ==
    IF s # <<>> /\ IsSpace(Head(s)) THEN lstrip(Tail(s)) ELSE s

RECURSIVE rstrip(_)
rstrip(s) ==
    IF s # <<>> /\ IsSpace(s[Len(s)]) THEN rstrip(SubSeq(s, 1, Len(s) - 1)) ELSE s

strip(s) == rstrip(lstrip(s))

\* index of the first occurrence of atom c in s, 0 when there is none
Find(s, c) ==
    IF \E i \in 1..Len(s) : s[i] = c
    THEN CHOOSE i \in 1..Len(s) : s[i] = c /\ \A j \in 1..(i - 1) : s[j] # c
    ELSE 0

RECURSIVE splitlines(_)
splitlines(s) ==
    IF s = <<>> THEN <<>>
    ELSE LET k == Find(s, NL)
         IN  IF k = 0 THEN <<s>>
             ELSE <<SubSeq(s, 1, k - 1)>> \o splitlines(SubSeq(s, k + 1, Len(s)))

removeprefix(s, p) ==
    IF Len(s) >= Len(p) /\ SubSeq(s, 1, Len(p)) = p
    THEN SubSeq(s, Len(p) + 1, Len(s))
    ELSE s

\* `sub in s`
Contains(s, sub) ==
    \E i \in 1..(Len(s) + 1) :
        i + Len(sub) - 1 <= Len(s) /\ SubSeq(s, i, i + Len(sub) - 1) = sub

\* s.split(':', 1)[1] for an s that holds a colon
AfterFirstColon(s) == SubSeq(s, Find(s, ":") + 1, Len(s))

RECURSIVE MapStrip(_)
MapStrip(ls) ==
    IF ls = <<>> THEN <<>> ELSE <<strip(Head(ls))>> \o MapStrip(Tail(ls))

(***************************************************************************)
(* Paths: a path is the sequence of its component names below "/".         *)
(***************************************************************************)
\* The characters of directory names, in code point order.
Alphabet == <<"-", ".", "/", "a", "b", "c", "g", "h", "i", "l", "r", "t">>
Ord(c) == CHOOSE i \in 1..Len(Alphabet) : Alphabet[i] = c

\* str < str
StrLess(s, t) ==
    \E k \in 1..Len(t) :
        /\ k <= Len(s) + 1
        /\ \A j \in 1..(k - 1) : s[j] = t[j]
        /\ (k = Len(s) + 1 \/ Ord(s[k]) < Ord(t[k]))

\* PurePath.__lt__: the parts are compared as a sequence of strings
PathLess(p, q) ==
    \E k \in 1..Len(q) :
        /\ k <= Len(p) + 1
        /\ \A j \in 1..(k - 1) : p[j] = q[j]
        /\ (k = Len(p) + 1 \/ StrLess(p[k], q[k]))

\* str(path) of an absolute path
RECURSIVE PathStr(_)
PathStr(p) ==
    IF p = <<>> THEN <<>> ELSE <<"/">> \o Head(p) \o PathStr(Tail(p))

IsPrefix(p, q) == Len(p) <= Len(q) /\ SubSeq(q, 1, Len(p)) = p

\* sorted(..., key=str)
sorted_by_str(S) ==
    CHOOSE s \in [1..Cardinality(S) -> S] :
        \A i, j \in 1..Cardinality(S) : i < j => StrLess(PathStr(s[i]), PathStr(s[j]))

\* sorted(set of Path)
sorted(S) ==
    CHOOSE s \in [1..Cardinality(S) -> S] :
        \A i, j \in 1..Cardinality(S) : i < j => PathLess(s[i], s[j])

(***************************************************************************)
(* The directory tree                                                      *)
(***************************************************************************)
DotGit == <<".", "g", "i", "t">>
NameA == <<"a">>
NameB == <<"b">>
NameAB == <<"a", "-", "b">>
NameHidden == <<".", "c">>
NameL == <<"l">>

\* The scan root, already resolved by the command line.
Root == << <<"h">>, <<"r">> >>

Dir(name) == [name |-> name, kind |-> "dir", target |-> <<>>]
File(name) == [name |-> name, kind |-> "file", target |-> <<>>]
Link(name, to) == [name |-> name, kind |-> "link", target |-> to]

\* The directories every tree of the family holds, and their subdirectories.
Skeleton ==
    [d \in { Root,
             Root \o <<NameA>>,
             Root \o <<NameA, NameB>>,
             Root \o <<NameAB>>,
             Root \o <<NameHidden>>,
             Root \o <<NameHidden, NameB>> } |->
        IF d = Root THEN {Dir(NameA), Dir(NameAB), Dir(NameHidden)}
        ELSE IF d \in {Root \o <<NameA>>, Root \o <<NameHidden>>} THEN {Dir(NameB)}
        ELSE {}]

Extras == {"none", "some"}

\* The tree in which the directories of G hold a .git directory; with extras,
\* the root also holds a symlink l -> a/b, and a-b a .git file (not a
\* directory) unless it is in G.
MkFs(G, extra) ==
    [d \in DOMAIN Skeleton \cup {Append(g, DotGit) : g \in G} |->
        IF d \notin DOMAIN Skeleton THEN {}
        ELSE Skeleton[d]
             \cup (IF d \in G THEN {Dir(DotGit)} ELSE {})
             \cup (IF extra = "some" /\ d = Root
                   THEN {Link(NameL, Root \o <<NameA, NameB>>)} ELSE {})
             \cup (IF extra = "some" /\ d = Root \o <<NameAB>> /\ d \notin G
                   THEN {File(DotGit)} ELSE {})]

Trees ==
    {MkFs(G, extra) : G \in {X \in SUBSET DOMAIN Skeleton : Cardinality(X) <= MaxRepos},
                      extra \in Extras}

\* Path.resolve(): follow the symlinks met along the path
RECURSIVE ResolveFrom(_, _, _)
ResolveFrom(tree, cur, rest) ==
    IF rest = <<>> THEN cur
    ELSE IF cur \in DOMAIN tree
            /\ \E e \in tree[cur] : e.name = Head(rest) /\ e.kind = "link"
         THEN ResolveFrom(tree,
                          (CHOOSE e \in tree[cur] : e.name = Head(rest)).target,
                          Tail(rest))
         ELSE ResolveFrom(tree, Append(cur, Head(rest)), Tail(rest))

resolve(tree, p) == ResolveFrom(tree, <<>>, p)

(***************************************************************************)
(* get_git_repos: os.walk(root), top down, symlinks not followed           *)
(***************************************************************************)
\* dirnames of os.walk: the entries that are directories, symlinks to
\* directories included
Dirnames(tree, d) == {e.name : e \in {x \in tree[d] : x.kind \in {"dir", "link"}}}

startswith_dot(name) == name # <<>> /\ Head(name) = "."

\* the filter without its `or d == '.git'`
KeptNoGit(names, skip) ==
    IF skip THEN {n \in names : ~startswith_dot(n)} ELSE names

\* dirnames[:] = [d for d in dirnames if not d.startswith('.') or d == '.git']
Kept(names, skip) ==
    IF skip THEN {n \in names : ~startswith_dot(n) \/ n = DotGit} ELSE names

\* os.walk descends into the dirnames left that are not symlinks
Descend(tree, d, names) ==
    {Append(d, n) : n \in {m \in names :
        \E e \in tree[d] : e.name = m /\ e.kind = "dir"}}

\* a set as a sequence, in some fixed order (the order scandir happens to give)
RECURSIVE SeqOf(_)
SeqOf(S) ==
    IF S = {} THEN <<>> ELSE LET x == CHOOSE y \in S : TRUE
                             IN  <<x>> \o SeqOf(S \ {x})

(***************************************************************************)
(* The git invocations and what they may answer                            *)
(***************************************************************************)
Lines(names) ==
    IF names = <<>> THEN <<>>
    ELSE [i \in 1..(2 * Len(names)) |->
            IF i % 2 = 1 THEN names[(i + 1) \div 2] ELSE NL]

\* git branch --format=%(refname:short)
BranchOutcomes ==
    { Failed,
      Exit(0, <<>>),
      Exit(0, Lines(<<"main">>)),
      Exit(0, Lines(<<"main", "feature/x", "bugfix">>)),
      Exit(0, Lines(<<"master", "main">>)) }

OriginPrefix == <<"refs/remotes/origin/">>

\* git symbolic-ref refs/remotes/origin/HEAD
SymbolicRefOutcomes ==
    { Failed,
      Exit(0, <<>>),
      Exit(0, OriginPrefix \o <<NL>>),
      Exit(0, OriginPrefix \o <<"main", NL>>),
      Exit(0, OriginPrefix \o <<"feature/x", NL>>) }

HeadMarker == <<"HEAD branch", ":">>
RemoteHeader ==
    <<"*", SP, "remote origin", NL, SP, SP, "Fetch URL", ":", SP, "u", NL>>

\* git remote show origin
RemoteShowOutcomes ==
    { Failed,
      Exit(0, <<>>),
      Exit(0, RemoteHeader),
      Exit(0, RemoteHeader \o <<SP, SP>> \o HeadMarker \o <<SP, "main", NL>>),
      Exit(0, RemoteHeader \o <<SP, SP>> \o HeadMarker \o <<NL>>) }

\* git show-ref --verify refs/heads/<b>: prints "<hash> <ref>" when the
\* branch exists and fails otherwise
ShowRefOutcomes(b) ==
    { Failed, Exit(0, <<"hash", SP, "refs/heads/", b, NL>>) }

(***************************************************************************)
(* src/src/gitwip/main.py                                                  *)
(***************************************************************************)
\* get_repo_branches: the names listed, [] when the invocation fails
get_repo_branches(o) ==
    IF o.rc # 0 THEN <<>> ELSE MapStrip(splitlines(strip(o.stdout)))

\* _run_git: the stripped stdout, None when the invocation fails
run_git(o) == IF o.rc # 0 THEN None ELSE Some(strip(o.stdout))

\* strategy 1 without the removeprefix
FromSymbolicRefUnstripped(r) == Some(r.val)

\* strategy 1: the symbolic ref's target without the remote-tracking prefix
FromSymbolicRef(r) == Some(removeprefix(r.val, OriginPrefix))

RECURSIVE FirstHeadBranch(_)
FirstHeadBranch(ls) ==
    IF ls = <<>> THEN None
    ELSE IF Contains(Head(ls), HeadMarker)
         THEN Some(strip(AfterFirstColon(Head(ls))))
         ELSE FirstHeadBranch(Tail(ls))

\* strategy 2: the first line holding 'HEAD branch:' decides
FromRemoteShow(o) == IF Truthy(o) THEN FirstHeadBranch(splitlines(o.val)) ELSE None

\* branches = [b for b in all_branches if b != primary_branch]
NotPrimary(b, primary) == Some(b) # primary

RECURSIVE Filter(_, _)
Filter(bs, primary) ==
    IF bs = <<>> THEN <<>>
    ELSE (IF NotPrimary(Head(bs), primary) THEN <<Head(bs)>> ELSE <<>>)
         \o Filter(Tail(bs), primary)

\* f'~/{repo_path.relative_to(home)}', or str(repo_path) on ValueError
RECURSIVE RelStr(_)
RelStr(p) ==
    IF p = <<>> THEN <<>>
    ELSE IF Len(p) = 1 THEN Head(p)
    ELSE Head(p) \o <<"/">> \o RelStr(Tail(p))

display_path(repo_path, h) ==
    IF IsPrefix(h, repo_path)
    THEN <<"~/">> \o (IF repo_path = h THEN <<".">>
                      ELSE RelStr(SubSeq(repo_path, Len(h) + 1, Len(repo_path))))
    ELSE PathStr(repo_path)

HeaderLine(display) == <<"=== ">> \o display \o <<" ===">>
BranchLine(b) == <<"* ">> \o b
BlankLine == <<>>

RECURSIVE BranchLines(_)
BranchLines(bs) ==
    IF bs = <<>> THEN <<>> ELSE <<BranchLine(Head(bs))>> \o BranchLines(Tail(bs))

\* the prints without the `if branches:` around them
ReportLinesUnguarded(display, bs) ==
    <<HeaderLine(display)>> \o BranchLines(bs) \o <<BlankLine>>

RECURSIVE HeaderAndBranch(_, _)
HeaderAndBranch(display, bs) ==
    IF bs = <<>> THEN <<>>
    ELSE <<HeaderLine(display), BranchLine(Head(bs))>> \o HeaderAndBranch(display, Tail(bs))

\* the header printed inside the loop over the branches
ReportLinesHeaderEach(display, bs) ==
    IF bs # <<>> THEN HeaderAndBranch(display, bs) \o <<BlankLine>> ELSE <<>>

\* what one repository adds to stdout
ReportLines(display, bs) ==
    IF bs # <<>>
    THEN <<HeaderLine(display)>> \o BranchLines(bs) \o <<BlankLine>>
    ELSE <<>>

(***************************************************************************)
(* State machine                                                           *)
(***************************************************************************)
Homes == { << <<"h">> >>, Root \o <<NameA>> }

Init ==
    /\ fs \in Trees
    /\ skip_hidden_dirs \in BOOLEAN
    /\ home \in Homes
    /\ pc = "walk"
    /\ walk = <<Root>>
    /\ git_repos = <<>>
    /\ order = <<>>
    /\ idx = 0
    /\ listing = Failed
    /\ all_branches = <<>>
    /\ calls = <<>>
    /\ ref = None
    /\ remote_output = None
    /\ probed = <<>>
    /\ primary_branch = None
    /\ branches = <<>>
    /\ mark = 0
    /\ out = <<>>

\* get_git_repos: one turn of `for dirpath, dirnames, _ in os.walk(root)`
WalkDir ==
    /\ pc = "walk"
    /\ walk # <<>>
    /\ LET dirpath == Head(walk)
           dirnames == Kept(Dirnames(fs, dirpath), skip_hidden_dirs)
       IN  IF DotGit \in dirnames
           THEN /\ git_repos' = Append(git_repos, dirpath)
                /\ walk' = Tail(walk)
           ELSE /\ git_repos' = git_repos
                /\ walk' = SeqOf(Descend(fs, dirpath, dirnames)) \o Tail(walk)
    /\ UNCHANGED <<fs, skip_hidden_dirs, home, pc, order, idx, listing,
                   all_branches, calls, ref, remote_output, probed, primary_branch,
                   branches, mark, out>>

\* repo_paths = {p.resolve() for p in get_git_repos(...)}
repo_paths(tree, found) == {resolve(tree, found[i]) : i \in 1..Len(found)}

\* find_repos_with_branches: the walk is over, sorted(repo_paths) is taken
WalkDone ==
    /\ pc = "walk"
    /\ walk = <<>>
    /\ order' = sorted(repo_paths(fs, git_repos))
    /\ pc' = "loop"
    /\ UNCHANGED <<fs, skip_hidden_dirs, home, walk, git_repos, idx, listing,
                   all_branches, calls, ref, remote_output, probed, primary_branch,
                   branches, mark, out>>

\* for repo_path in sorted(repo_paths): the next repository, or the end
LoopNext ==
    /\ pc = "loop"
    /\ idx < Len(order)
    /\ idx' = idx + 1
    /\ pc' = "list"
    /\ mark' = Len(out)
    /\ listing' = Failed
    /\ all_branches' = <<>>
    /\ calls' = <<>>
    /\ ref' = None
    /\ remote_output' = None
    /\ probed' = <<>>
    /\ primary_branch' = None
    /\ branches' = <<>>
    /\ UNCHANGED <<fs, skip_hidden_dirs, home, walk, git_repos, order, out>>

LoopEnd ==
    /\ pc = "loop"
    /\ idx = Len(order)
    /\ pc' = "done"
    /\ UNCHANGED <<fs, skip_hidden_dirs, home, walk, git_repos, order, idx,
                   listing, all_branches, calls, ref, remote_output, probed,
                   primary_branch, branches, mark, out>>

\* all_branches = get_repo_branches(repo_path, git_path)
ListBranches ==
    /\ pc = "list"
    /\ \E o \in BranchOutcomes :
        /\ listing' = o
        /\ all_branches' = get_repo_branches(o)
    /\ pc' = "symbolic-ref"
    /\ UNCHANGED <<fs, skip_hidden_dirs, home, walk, git_repos, order, idx,
                   calls, ref, remote_output, probed, primary_branch, branches,
                   mark, out>>

\* get_primary_branch, 1: origin/HEAD
SymbolicRef ==
    /\ pc = "symbolic-ref"
    /\ \E o \in SymbolicRefOutcomes :
        /\ ref' = run_git(o)
        /\ IF Truthy(ref')
           THEN primary_branch' = FromSymbolicRef(ref') /\ pc' = "filter"
           ELSE primary_branch' = primary_branch /\ pc' = "remote show"
    /\ calls' = Append(calls, "symbolic-ref")
    /\ UNCHANGED <<fs, skip_hidden_dirs, home, walk, git_repos, order, idx,
                   listing, all_branches, remote_output, probed, branches, mark, out>>

\* get_primary_branch, 2: remote show origin
RemoteShow ==
    /\ pc = "remote show"
    /\ \E o \in RemoteShowOutcomes :
        /\ remote_output' = run_git(o)
        /\ IF FromRemoteShow(remote_output').some
           THEN primary_branch' = FromRemoteShow(remote_output') /\ pc' = "filter"
           ELSE primary_branch' = primary_branch /\ pc' = "show-ref"
    /\ calls' = Append(calls, "remote show")
    /\ UNCHANGED <<fs, skip_hidden_dirs, home, walk, git_repos, order, idx,
                   listing, all_branches, ref, probed, branches, mark, out>>

\* the probes in the other order
ProbesMasterFirst == <<"master", "main">>

\* for branch in ('main', 'master')
Probes == <<"main", "master">>

\* get_primary_branch, 3: one turn of `for branch in ('main', 'master')`,
\* and the `return None` that follows the last turn
ShowRef ==
    /\ pc = "show-ref"
    /\ LET branch == Probes[Len(probed) + 1]
       IN  /\ \E o \in ShowRefOutcomes(branch) :
                /\ probed' = Append(probed, [branch |-> branch, result |-> run_git(o)])
                /\ IF Truthy(run_git(o))
                   THEN primary_branch' = Some(<<branch>>) /\ pc' = "filter"
                   ELSE /\ primary_branch' = None
                        /\ pc' = IF Len(probed) + 1 < Len(Probes)
                                 THEN "show-ref" ELSE "filter"
           /\ calls' = Append(calls, "show-ref " \o branch)
    /\ UNCHANGED <<fs, skip_hidden_dirs, home, walk, git_repos, order, idx,
                   listing, all_branches, ref, remote_output, branches, mark, out>>

\* the filter and the prints of one repository; the resolver's locals are gone
Report ==
    /\ pc = "filter"
    /\ branches' = Filter(all_branches, primary_branch)
    /\ out' = out \o ReportLines(display_path(order[idx], home), branches')
    /\ pc' = "loop"
    /\ calls' = <<>>
    /\ ref' = None
    /\ remote_output' = None
    /\ probed' = <<>>
    /\ UNCHANGED <<fs, skip_hidden_dirs, home, walk, git_repos, order, idx,
                   listing, all_branches, primary_branch, mark>>

Next ==
    \/ WalkDir
    \/ WalkDone
    \/ LoopNext
    \/ LoopEnd
    \/ ListBranches
    \/ SymbolicRef
    \/ RemoteShow
    \/ ShowRef
    \/ Report

Spec == Init /\ [][Next]_vars

(***************************************************************************)
(* src/main.py, the standalone script                                      *)
(***************************************************************************)
ErrorLine == <<"Error: git is not installed or not found in PATH.">>

\* return [b for b in branches if b not in {"main", "master"}]
RECURSIVE NotMainMaster(_)
NotMainMaster(bs) ==
    IF bs = <<>> THEN <<>>
    ELSE (IF Head(bs) \notin {<<"main">>, <<"master">>} THEN <<Head(bs)>> ELSE <<>>)
         \o NotMainMaster(Tail(bs))

\* branches = get_repo_branches(repo_path): a failed invocation prints the
\* error and leaves through sys.exit(1)
ScriptListBranches ==
    /\ pc = "list"
    /\ \E o \in BranchOutcomes :
        /\ listing' = o
        /\ IF o.rc # 0
           THEN /\ out' = Append(out, ErrorLine)
                /\ pc' = "exit"
                /\ UNCHANGED <<all_branches, branches>>
           ELSE /\ all_branches' = MapStrip(splitlines(strip(o.stdout)))
                /\ branches' = NotMainMaster(all_branches')
                /\ pc' = "print"
                /\ out' = out
    /\ UNCHANGED <<fs, skip_hidden_dirs, home, walk, git_repos, order, idx,
                   calls, ref, remote_output, probed, primary_branch, mark>>

\* if branches: the header, the branch lines, the blank line
ScriptReport ==
    /\ pc = "print"
    /\ out' = out \o ReportLines(display_path(order[idx], home), branches)
    /\ pc' = "loop"
    /\ UNCHANGED <<fs, skip_hidden_dirs, home, walk, git_repos, order, idx,
                   listing, all_branches, calls, ref, remote_output, probed,
                   primary_branch, branches, mark>>

NextScript ==
    \/ WalkDir
    \/ WalkDone
    \/ LoopNext
    \/ LoopEnd
    \/ ScriptListBranches
    \/ ScriptReport

SpecScript == Init /\ [][NextScript]_vars

(***************************************************************************)
(* Reading the state and the output                                        *)
(***************************************************************************)
Range(f) == {f[i] : i \in DOMAIN f}

\* get_primary_branch has just returned for the repository order[idx]
Resolved == pc = "filter"

\* the loop body is over for the repository order[idx]
Processed == pc \in {"loop", "done"} /\ idx >= 1

IsHeader(l) == l # <<>> /\ Head(l) = "=== "
IsBranch(l) == l # <<>> /\ Head(l) = "* "
IsBlank(l) == l = <<>>

\* what the repository order[idx] has added to stdout
Block == SubSeq(out, mark + 1, Len(out))

\* the names on the branch lines of a piece of output, in order
EmittedBranches(block) ==
    LET sel == SelectSeq(block, IsBranch)
    IN  [i \in 1..Len(sel) |-> Tail(sel[i])]

\* the names of bs that differ from the optional name p, in the order of bs
Without(bs, p) == SelectSeq(bs, LAMBDA b : ~(p.some /\ p.val = b))

\* the header lines of the output that name the repository r
HeadersOf(r) == {i \in 1..Len(out) : out[i] = HeaderLine(display_path(r, home))}

\* the repositories reported, in the order of their headers
Reported ==
    LET hs == SelectSeq(out, IsHeader)
    IN  [i \in 1..Len(hs) |->
            CHOOSE r \in Range(order) : hs[i] = HeaderLine(display_path(r, home))]

(***************************************************************************)
(* C1                                                                      *)
(***************************************************************************)
\* The package: the branch lines are the listing without the resolver's result.
BranchLinesAreListingMinusResolved ==
    Processed => EmittedBranches(Block) = Without(all_branches, primary_branch)

\* C1: the branch lines printed for a repository are exactly the names of the
\* branch listing that differ from its primary branch, in the order of the
\* listing; with no primary branch every listed name is printed.  Stated for
\* a program without a resolver: whatever the primary branch p is taken to be.
C1_BranchLinesAreListingMinusPrimary ==
    Processed =>
        \E p \in {None} \cup {Some(b) : b \in Range(all_branches)} :
            EmittedBranches(Block) = Without(all_branches, p)

(***************************************************************************)
(* C2                                                                      *)
(***************************************************************************)
StrategyCalls == <<"symbolic-ref", "remote show", "show-ref main", "show-ref master">>

\* what each strategy yields, read off the answers it got (<<>>: nothing)
Yield1 == IF ref.some THEN removeprefix(ref.val, OriginPrefix) ELSE <<>>
Yield2 ==
    IF remote_output.some
       /\ \E l \in Range(splitlines(remote_output.val)) : Contains(l, HeadMarker)
    THEN LET ls == splitlines(remote_output.val)
             k == CHOOSE i \in 1..Len(ls) :
                    /\ Contains(ls[i], HeadMarker)
                    /\ \A j \in 1..(i - 1) : ~Contains(ls[j], HeadMarker)
         IN  strip(AfterFirstColon(ls[k]))
    ELSE <<>>
\* show-ref --verify was asked about the local branch b / found it
Asked(b) == \E i \in 1..Len(probed) : probed[i].branch = b
Exists(b) == \E i \in 1..Len(probed) : probed[i].branch = b /\ probed[i].result.some

Yield3(b) == IF Exists(b) THEN <<b>> ELSE <<>>

YieldOf(call) ==
    IF call = "symbolic-ref" THEN Yield1
    ELSE IF call = "remote show" THEN Yield2
    ELSE IF call = "show-ref main" THEN Yield3("main")
    ELSE Yield3("master")

\* the invocations are made in the fixed order and stop with the deciding one
CallsInOrder == Len(calls) <= Len(StrategyCalls) /\ calls = SubSeq(StrategyCalls, 1, Len(calls))

\* C2: the strategies are tried in the fixed order; the first one that yields
\* a non-empty result determines the return value, and nothing is invoked
\* after it.
C2_FirstNonEmptyResultWins ==
    Resolved =>
        /\ CallsInOrder
        /\ \A i \in 1..(Len(calls) - 1) : YieldOf(calls[i]) = <<>>
        /\ IF YieldOf(calls[Len(calls)]) # <<>>
           THEN primary_branch = Some(YieldOf(calls[Len(calls)]))
           ELSE primary_branch = None /\ calls = StrategyCalls

(***************************************************************************)
(* C3                                                                      *)
(***************************************************************************)
\* C3: when symbolic-ref answers refs/remotes/origin/<name>, the resolver
\* returns <name>, and consults nothing else.
C3_SymbolicRefTargetStripped ==
    (Resolved /\ ref.some /\ ref.val # <<>> /\ IsPrefix(OriginPrefix, ref.val)) =>
        /\ primary_branch = Some(SubSeq(ref.val, Len(OriginPrefix) + 1, Len(ref.val)))
        /\ calls = <<"symbolic-ref">>

C3_Witness ==
    /\ Resolved
    /\ ref = Some(OriginPrefix \o <<"feature/x">>)
    /\ primary_branch = Some(<<"feature/x">>)

(***************************************************************************)
(* C4                                                                      *)
(***************************************************************************)
\* neither remote query gave the resolver anything to go by
NoUsableRemote ==
    /\ Len(calls) >= 2
    /\ ~ref.some \/ ref.val = <<>>
    /\ \/ ~remote_output.some
       \/ \A l \in Range(splitlines(remote_output.val)) : ~Contains(l, HeadMarker)

\* C4: without a usable remote the resolver returns main when the local branch
\* main exists, else master when master exists, else nothing; main is asked
\* first, and master is not asked once main is found.
C4_MainThenMasterThenAbsent ==
    (Resolved /\ NoUsableRemote) =>
        /\ Asked("main")
        /\ Exists("main") => primary_branch = Some(<<"main">>) /\ ~Asked("master")
        /\ ~Exists("main") => Asked("master")
        /\ (~Exists("main") /\ Exists("master")) => primary_branch = Some(<<"master">>)
        /\ (~Exists("main") /\ ~Exists("master")) => primary_branch = None

C4_Witness ==
    /\ Resolved
    /\ NoUsableRemote
    /\ ~Exists("main")
    /\ Exists("master")
    /\ primary_branch = Some(<<"master">>)

(***************************************************************************)
(* C5                                                                      *)
(***************************************************************************)
RECURSIVE ComponentsBefore(_, _)
\* p comes before q when the names of the two paths are compared one by one
ComponentsBefore(p, q) ==
    IF q = <<>> THEN FALSE
    ELSE IF p = <<>> THEN TRUE
    ELSE IF Head(p) = Head(q) THEN ComponentsBefore(Tail(p), Tail(q))
    ELSE StrLess(Head(p), Head(q))

\* C5 as stated: the headers appear in ascending order of the canonical path
\* strings.
C5_HeadersInPathStringOrder ==
    pc \in {"loop", "done"} => \A i, j \in 1..Len(Reported) :
        i < j => StrLess(PathStr(Reported[i]), PathStr(Reported[j]))

\* C5 as amended: the headers appear in ascending order of the canonical
\* paths compared name by name (the order of pathlib's Path objects).
C5_HeadersInPathComponentOrder ==
    pc \in {"loop", "done"} => \A i, j \in 1..Len(Reported) :
        i < j => ComponentsBefore(Reported[i], Reported[j])

C5_Witness ==
    /\ pc = "done"
    /\ Reported = <<Root \o <<NameA, NameB>>, Root \o <<NameAB>> >>

(***************************************************************************)
(* C6                                                                      *)
(***************************************************************************)
\* every header is followed by one or more branch lines and then one blank
\* line, and only such groups are printed
WellFormed(o) ==
    /\ \A i \in 1..Len(o) :
        /\ IsHeader(o[i]) \/ IsBranch(o[i]) \/ IsBlank(o[i])
        /\ IsHeader(o[i]) =>
            /\ i = 1 \/ IsBlank(o[i - 1])
            /\ i < Len(o) /\ IsBranch(o[i + 1])
        /\ IsBranch(o[i]) =>
            /\ i > 1 /\ (IsHeader(o[i - 1]) \/ IsBranch(o[i - 1]))
            /\ i < Len(o) /\ (IsBranch(o[i + 1]) \/ IsBlank(o[i + 1]))
        /\ IsBlank(o[i]) => i > 1 /\ IsBranch(o[i - 1])

\* C6: a repository whose filtered branch list is empty prints nothing, and
\* every header printed is followed by at least one branch line and then
\* exactly one blank line.
C6_EmptyOmittedAndGroupsWellFormed ==
    /\ (Processed /\ Without(all_branches, primary_branch) = <<>>) => Len(out) = mark
    /\ (Processed /\ listing.rc # 0) => Len(out) = mark
    /\ (pc \in {"loop", "done"}) => WellFormed(out)

C6_Witness ==
    /\ Processed
    /\ idx = 2
    /\ all_branches = << <<"main">> >>
    /\ primary_branch = Some(<<"main">>)
    /\ mark > 0
    /\ Len(out) = mark

(***************************************************************************)
(* C7                                                                      *)
(***************************************************************************)
\* C7: the repositories processed are canonical paths, each taken once, and
\* the output holds at most one header for each of them.
C7_EachRepositoryReportedOnce ==
    pc \in {"loop", "done"} =>
        /\ \A i, j \in 1..Len(order) : i # j => order[i] # order[j]
        /\ \A r \in Range(order) : resolve(fs, r) = r /\ Cardinality(HeadersOf(r)) <= 1
        /\ Len(SelectSeq(out, IsHeader))
              = Cardinality({r \in Range(order) : HeadersOf(r) # {}})

\* a repository that a symlink of the tree also leads to has been reported
C7_Witness ==
    /\ pc = "done"
    /\ \E e \in fs[Root] : e.kind = "link" /\ e.target \in Range(order)
                            /\ Cardinality(HeadersOf(e.target)) = 1

(***************************************************************************)
(* C8                                                                      *)
(***************************************************************************)
HasGitDir(d) == \E e \in fs[d] : e.name = DotGit /\ e.kind = "dir"

\* the directories the claim describes
OutermostRepos ==
    {d \in DOMAIN fs :
        /\ IsPrefix(Root, d)
        /\ HasGitDir(d)
        /\ \A a \in DOMAIN fs : (IsPrefix(Root, a) /\ IsPrefix(a, d) /\ a # d) => ~HasGitDir(a)
        /\ skip_hidden_dirs => \A k \in (Len(Root) + 1)..Len(d) : d[k][1] # "."}

\* C8: get_git_repos returns exactly the directories at or below the root that
\* hold a .git directory, have no ancestor below the root that holds one and,
\* when hidden directories are skipped, no dot-named directory on the way.
C8_GitReposAreOutermostVisible ==
    (pc = "loop" /\ idx = 0) =>
        /\ Range(git_repos) = OutermostRepos
        /\ \A i, j \in 1..Len(git_repos) : i # j => git_repos[i] # git_repos[j]

C8_Witness ==
    /\ pc = "loop"
    /\ idx = 0
    /\ ~skip_hidden_dirs
    /\ Root \o <<NameHidden, NameB>> \in Range(git_repos)
    /\ Root \o <<NameA>> \in Range(git_repos)

(***************************************************************************)
(* C9                                                                      *)
(***************************************************************************)
\* C9: no failing git invocation ends the scan: a failed listing counts as no
\* branches, the repository is left out, and the loop goes on to the end.
C9_NoFailureEndsScan ==
    /\ pc # "exit"
    /\ (Processed /\ listing.rc # 0) => (all_branches = <<>> /\ Len(out) = mark)
    /\ pc = "done" => idx = Len(order)

(***************************************************************************)
(* C10                                                                     *)
(***************************************************************************)
\* C10: get_primary_branch returns None or a non-empty branch name.
C10_PrimaryAbsentOrNonEmpty ==
    Resolved => (~primary_branch.some \/ primary_branch.val # <<>>)

====
